---- MODULE Spec2Model ----
(***************************************************************************)
(* ditherworks: the /api/convert job runner (server/src/routes/convert.ts) *)
(* with its inline concurrency limiter, and the SSE progress channel       *)
(* (the job registry at the end of src/lib/storage.ts, used by the         *)
(* /api/progress/:jobId route).                                            *)
(*                                                                         *)
(* JavaScript runs one continuation at a time, so every action below is    *)
(* one synchronous run of code between two suspension points (an await, a  *)
(* promise continuation, an I/O callback).                                 *)
(***************************************************************************)
EXTENDS Integers, Sequences, FiniteSets

\* ------------------------------------------------------------------ bounds
MaxImages == 4      \* largest manifest the model receives
MaxEntries == 3     \* longest manifest the validation is tried on
MaxRecords == 2     \* JobState objects ever allocated
MaxPublishes == 2   \* startJob + reportProgress calls in one behaviour

\* createLimiter(2)
MaxConcurrent == 2

JobIds == {"j1"}
\* totals and counts passed to startJob / reportProgress
Totals == {1, 2}
Counts == {0, 1, 2}
NoId == "none"
\* the SSE responses (ServerResponse objects) that may ever connect
Sinks == {"s1", "s2"}
Slots == 1..MaxImages

\* file names, as sequences of tokens: ".", "/" or a non-empty run of other
\* characters (the only distinctions the code draws inside a name)
CanonNames == << <<"a", ".", "jpg">>, <<"b", ".", "png">>, <<"c", ".", "jpg">>,
                 <<"d", ".", "jpg">>, <<"e", ".", "jpg">>, <<"f", ".", "jpg">> >>
\* names the validation is tried on; the last is a property every object inherits
TryNames == { <<"a", ".", "jpg">>, <<"a", ".", "png">>, <<"toString">> }
UploadNames == { <<"a", ".", "jpg">>, <<"a", ".", "png">> }
ObjectPrototypeKeys == { <<"toString">> }
Causes == {"unreadable", "toolUnavailable"}

VARIABLES
    \* ---- one /api/convert request
    hpc,        \* position of the route handler
    request,    \* the multipart request: manifest field and uploaded files
    nimg,       \* manifestObj.images.length
    reqJobId,   \* manifest.jobId (optional)
    k,          \* index of the next images.map callback
    tpc,        \* position of each limit(...) call
    cause,      \* why a task body rejected
    allErr,     \* rejection reason of Promise.all(tasks) ("none": not rejected)
    active,     \* createLimiter: active
    queue,      \* createLimiter: queue (resolvers, by task index)
    archive,    \* entries handed to archive.append, in call order
    finalized,  \* archive.finalize() was called
    destroyed,  \* archive.destroy() was called
    reply,      \* what the handler answered
    \* ---- progress channel
    heap,       \* every JobState object allocated so far
    jobs,       \* the Map jobs: job id -> index into heap (0: no entry)
    log,        \* events written to each sink by writeSseEvent, in order
    ended,      \* res.end() was called on the sink
    handle,     \* job id captured by the sink's unsubscribe closure
    publishes,  \* number of startJob / reportProgress calls so far
    \* ---- the response stream the archive is piped to
    drained,    \* archive entries the sink has taken so far
    \* ---- the gallery (browser)
    imageData,  \* ImageGallery state: the cards shown, each with id and cropY
    nextData,   \* loadImages: the list being built
    loadIdx,    \* loadImages: index of the next image of the loop
    suggest,    \* the suggestCrop promise of each image
    txs,        \* updateImageY transactions not yet committed, in creation order
    store,      \* IndexedDB: y of each stored image record
    userY,      \* the last cropY the user set for each image
    \* ---- one evaluation of a pure computation (crop window, name, suggestion)
    calc

convVars == <<hpc, request, nimg, reqJobId, k, tpc, cause, allErr, active, queue,
              archive, finalized, destroyed, reply>>
chanVars == <<heap, jobs, log, ended, handle, publishes>>
galVars == <<imageData, nextData, loadIdx, suggest, txs, store, userY>>
vars == <<hpc, request, nimg, reqJobId, k, tpc, cause, allErr, active, queue,
          archive, finalized, destroyed, reply,
          heap, jobs, log, ended, handle, publishes, drained,
          imageData, nextData, loadIdx, suggest, txs, store, userY, calc>>

\* ------------------------------------------------------------------ Init
NoRequest == [manifest |-> "none", images |-> "none", items |-> <<>>, files |-> {}]
NoReply == [code |-> 0, error |-> "none"]
NoCalc == [op |-> "none"]

InitConvert ==
    /\ hpc = "idle"
    /\ request = NoRequest
    /\ nimg = 0
    /\ reqJobId = NoId
    /\ k = 1
    /\ tpc = [i \in Slots |-> "none"]
    /\ cause = [i \in Slots |-> "none"]
    /\ allErr = "none"
    /\ active = 0
    /\ queue = <<>>
    /\ archive = <<>>
    /\ finalized = FALSE
    /\ destroyed = FALSE
    /\ reply = NoReply

InitChannel ==
    /\ heap = <<>>
    /\ jobs = [j \in JobIds |-> 0]
    /\ log = [s \in Sinks |-> <<>>]
    /\ ended = [s \in Sinks |-> FALSE]
    /\ handle = [s \in Sinks |-> NoId]
    /\ publishes = 0

\* images the user has added (their ids), most pending writes for which the
\* user may still drag, and y: undefined of a stored record
MaxGallery == 2
MaxTxs == 2
NoY == -1
GalleryIds == 1..MaxGallery

\* The gallery right after the images were added: addImages stored each
\* record with y undefined, and the effect is about to run loadImages.
InitGallery ==
    /\ imageData = <<>>
    /\ nextData = <<>>
    /\ loadIdx = 1
    /\ suggest = [id \in GalleryIds |-> "none"]
    /\ txs = <<>>
    /\ store = [id \in GalleryIds |-> NoY]
    /\ userY = [id \in GalleryIds |-> NoY]

Init == InitConvert /\ InitChannel /\ InitGallery /\ drained = 0 /\ calc = NoCalc

\* ============================================================ /api/convert
Tasks == 1..nimg

\* One manifest entry: its fileName, and what typeof says of fileName and y.
Entry(name, nameIsString, yIsNumber) ==
    [fileName |-> name, nameIsString |-> nameIsString, yIsNumber |-> yIsNumber]

\* img.fileName in files: files is a plain object, so the test also finds the
\* properties it inherits from Object.prototype.
InFiles(name, files) == name \in files \cup ObjectPrototypeKeys

\* the for loop over manifestObj.images: the first offending entry decides
RECURSIVE ValidateEntries(_, _)
ValidateEntries(items, files) ==
    IF items = <<>> THEN "ok"
    ELSE LET img == Head(items)
         IN IF ~img.nameIsString \/ ~img.yIsNumber THEN "invalid manifest entry"
            ELSE IF ~InFiles(img.fileName, files) THEN "missing file"
            ELSE ValidateEntries(Tail(items), files)

\* The checks of the handler before anything is created: "ok" or the error
\* of the 400 reply.
Validate(req) ==
    IF req.manifest = "badJson" THEN "invalid manifest JSON"
    ELSE IF req.manifest = "absent" THEN "manifest is required"
    ELSE IF req.images # "array" \/ Len(req.items) = 0
         THEN "manifest.images must be a non-empty array"
    ELSE ValidateEntries(req.items, req.files)

\* The request arrives. An invalid one is answered 400 and nothing else
\* happens; for a valid one the archive is created and piped and the limiter
\* is created.
ReceiveRequest(req, jid) ==
    /\ hpc = "idle"
    /\ request' = req
    /\ reqJobId' = jid
    /\ k' = 1
    /\ cause' = [i \in Slots |-> "none"]
    /\ allErr' = "none"
    /\ active' = 0
    /\ queue' = <<>>
    /\ archive' = <<>>
    /\ finalized' = FALSE
    /\ destroyed' = FALSE
    /\ IF Validate(req) = "ok"
       THEN /\ hpc' = "map"
            /\ nimg' = Len(req.items)
            /\ tpc' = [i \in Slots |-> IF i <= Len(req.items) THEN "new" ELSE "none"]
            /\ reply' = NoReply
       ELSE /\ hpc' = "rejected"
            /\ nimg' = 0
            /\ tpc' = [i \in Slots |-> "none"]
            /\ reply' = [code |-> 400, error |-> Validate(req)]
    /\ UNCHANGED <<chanVars, calc, drained, galVars>>

\* A limiter whose test lets one caller too many through.
LimitEnter_OffByOne(i) ==
    IF active > MaxConcurrent
    THEN /\ queue' = Append(queue, i)
         /\ tpc' = [tpc EXCEPT ![i] = "waiting"]
         /\ active' = active
    ELSE /\ active' = active + 1
         /\ tpc' = [tpc EXCEPT ![i] = "running"]
         /\ queue' = queue

\* limit(fn) up to its call of fn: a full limiter parks the caller's resolver
\* in the queue, otherwise the slot is taken and fn starts at once.
LimitEnter(i) ==
    IF active >= MaxConcurrent
    THEN /\ queue' = Append(queue, i)
         /\ tpc' = [tpc EXCEPT ![i] = "waiting"]
         /\ active' = active
    ELSE /\ active' = active + 1
         /\ tpc' = [tpc EXCEPT ![i] = "running"]
         /\ queue' = queue

\* manifestObj.images.map: the callbacks run in manifest order, synchronously,
\* so nothing else runs until the last limit() call has returned its promise;
\* the handler then awaits Promise.all(tasks).
Dispatch(i) ==
    /\ hpc = "map"
    /\ i = k
    /\ i <= nimg
    /\ LimitEnter(i)
    /\ k' = k + 1
    /\ hpc' = IF i = nimg THEN "awaitAll" ELSE "map"
    /\ UNCHANGED <<request, nimg, reqJobId, cause, allErr, archive, finalized, destroyed, reply>>
    /\ UNCHANGED <<chanVars, calc, drained, galVars>>

\* The task body: a successful conversion is appended to the archive. Only an
\* uploaded buffer can convert: files[img.fileName] is undefined or an
\* inherited function otherwise.
BodySucceed(i) ==
    /\ hpc # "map"
    /\ tpc[i] = "running"
    /\ request.items[i].fileName \in request.files
    /\ archive' = Append(archive, i)
    /\ tpc' = [tpc EXCEPT ![i] = "bodyOk"]
    /\ UNCHANGED <<hpc, request, nimg, reqJobId, k, cause, allErr, active, queue,
                   finalized, destroyed, reply>>
    /\ UNCHANGED <<chanVars, calc, drained, galVars>>

\* The task body: convertToBmp565WithDither rejects (sharp cannot read the
\* input, or the magick process cannot be spawned); the error is logged and
\* rethrown.
BodyFail(i, c) ==
    /\ hpc # "map"
    /\ tpc[i] = "running"
    /\ tpc' = [tpc EXCEPT ![i] = "bodyErr"]
    /\ cause' = [cause EXCEPT ![i] = c]
    /\ UNCHANGED <<hpc, request, nimg, reqJobId, k, allErr, active, queue, archive,
                   finalized, destroyed, reply>>
    /\ UNCHANGED <<chanVars, calc, drained, galVars>>

\* A limiter that calls next() after a successful fn() only (no finally): a
\* failed task keeps its slot and wakes nobody.
Release_SuccessOnly(i) ==
    /\ tpc[i] \in {"bodyOk", "bodyErr"}
    /\ IF tpc[i] = "bodyOk"
       THEN /\ active' = active - 1
            /\ IF queue # <<>>
               THEN /\ queue' = Tail(queue)
                    /\ tpc' = [tpc EXCEPT ![i] = "resolved", ![Head(queue)] = "woken"]
               ELSE /\ queue' = queue
                    /\ tpc' = [tpc EXCEPT ![i] = "resolved"]
       ELSE /\ active' = active
            /\ queue' = queue
            /\ tpc' = [tpc EXCEPT ![i] = "rejected"]
    /\ allErr' = IF tpc[i] = "bodyErr" /\ allErr = "none" THEN cause[i] ELSE allErr
    /\ UNCHANGED <<hpc, request, nimg, reqJobId, k, cause, archive, finalized, destroyed, reply>>
    /\ UNCHANGED <<chanVars, calc, drained, galVars>>

\* A limiter that wakes the newest waiter (queue.pop()) instead of the oldest.
Release_Lifo(i) ==
    /\ tpc[i] \in {"bodyOk", "bodyErr"}
    /\ active' = active - 1
    /\ LET settled == IF tpc[i] = "bodyOk" THEN "resolved" ELSE "rejected"
       IN IF queue # <<>>
          THEN /\ queue' = SubSeq(queue, 1, Len(queue) - 1)
               /\ tpc' = [tpc EXCEPT ![i] = settled, ![queue[Len(queue)]] = "woken"]
          ELSE /\ queue' = queue
               /\ tpc' = [tpc EXCEPT ![i] = settled]
    /\ allErr' = IF tpc[i] = "bodyErr" /\ allErr = "none" THEN cause[i] ELSE allErr
    /\ UNCHANGED <<hpc, request, nimg, reqJobId, k, cause, archive, finalized, destroyed, reply>>
    /\ UNCHANGED <<chanVars, calc, drained, galVars>>

\* finally { next() }: the slot is released and the oldest waiter's resolver
\* is called; the limit() promise then settles like the body did, and the
\* first rejection rejects Promise.all.
Release(i) ==
    /\ tpc[i] \in {"bodyOk", "bodyErr"}
    /\ active' = active - 1
    /\ LET settled == IF tpc[i] = "bodyOk" THEN "resolved" ELSE "rejected"
       IN IF queue # <<>>
          THEN /\ queue' = Tail(queue)
               /\ tpc' = [tpc EXCEPT ![i] = settled, ![Head(queue)] = "woken"]
          ELSE /\ queue' = queue
               /\ tpc' = [tpc EXCEPT ![i] = settled]
    /\ allErr' = IF tpc[i] = "bodyErr" /\ allErr = "none" THEN cause[i] ELSE allErr
    /\ UNCHANGED <<hpc, request, nimg, reqJobId, k, cause, archive, finalized, destroyed, reply>>
    /\ UNCHANGED <<chanVars, calc, drained, galVars>>

\* A woken waiter resumes after its await: active++ and fn() starts. The
\* resumptions are promise jobs, run in the order the resolvers were called,
\* which is the order of the queue and so of the manifest.
Resume(i) ==
    /\ tpc[i] = "woken"
    /\ \A j \in Slots : tpc[j] = "woken" => i <= j
    /\ active' = active + 1
    /\ tpc' = [tpc EXCEPT ![i] = "running"]
    /\ UNCHANGED <<hpc, request, nimg, reqJobId, k, cause, allErr, queue, archive,
                   finalized, destroyed, reply>>
    /\ UNCHANGED <<chanVars, calc, drained, galVars>>

\* A handler that waits for every task to settle (Promise.allSettled) and finalizes.
HandlerFinalize_AllSettled ==
    /\ hpc = "awaitAll"
    /\ \A i \in Tasks : tpc[i] \in {"resolved", "rejected"}
    /\ finalized' = TRUE
    /\ hpc' = "done"
    /\ UNCHANGED <<request, nimg, reqJobId, k, tpc, cause, allErr, active, queue, archive,
                   destroyed, reply>>
    /\ UNCHANGED <<chanVars, calc, drained, galVars>>

\* A handler that finalizes as soon as one task has resolved.
HandlerFinalize_Any ==
    /\ hpc = "awaitAll"
    /\ \E i \in Tasks : tpc[i] = "resolved"
    /\ finalized' = TRUE
    /\ hpc' = "done"
    /\ UNCHANGED <<request, nimg, reqJobId, k, tpc, cause, allErr, active, queue, archive,
                   destroyed, reply>>
    /\ UNCHANGED <<chanVars, calc, drained, galVars>>

\* A handler that finalizes as soon as the limiter holds no running task.
HandlerFinalize_Idle ==
    /\ hpc = "awaitAll"
    /\ active = 0
    /\ finalized' = TRUE
    /\ hpc' = "done"
    /\ UNCHANGED <<request, nimg, reqJobId, k, tpc, cause, allErr, active, queue, archive,
                   destroyed, reply>>
    /\ UNCHANGED <<chanVars, calc, drained, galVars>>

\* await Promise.all(tasks) fulfils once every limit() promise has resolved;
\* the handler then calls archive.finalize().
HandlerFinalize ==
    /\ hpc = "awaitAll"
    /\ \A i \in Tasks : tpc[i] = "resolved"
    /\ finalized' = TRUE
    /\ hpc' = "done"
    /\ UNCHANGED <<request, nimg, reqJobId, k, tpc, cause, allErr, active, queue, archive,
                   destroyed, reply>>
    /\ UNCHANGED <<chanVars, calc, drained, galVars>>

\* The answer of the catch block for the rejection err: a JSON 500 while
\* reply.sent is false, else the socket is destroyed. Neither reads err.
CatchReply(err, sent) ==
    IF sent THEN [code |-> 0, error |-> "socket destroyed"]
    ELSE [code |-> 500, error |-> "conversion failed"]

\* await Promise.all(tasks) rejects with the first rejection: the catch block
\* destroys the archive and answers.
HandlerCatch(sent) ==
    /\ hpc = "awaitAll"
    /\ allErr # "none"
    /\ destroyed' = TRUE
    /\ hpc' = "failed"
    /\ reply' = CatchReply(allErr, sent)
    /\ UNCHANGED <<request, nimg, reqJobId, k, tpc, cause, allErr, active, queue, archive,
                   finalized>>
    /\ UNCHANGED <<chanVars, calc, drained, galVars>>

\* a valid request of n distinct, uploaded images
CanonRequest(n) ==
    [manifest |-> "parsed", images |-> "array",
     items |-> [i \in 1..n |-> Entry(CanonNames[i], TRUE, TRUE)],
     files |-> {CanonNames[i] : i \in 1..n}]

CanonRequests == {CanonRequest(n) : n \in 1..MaxImages}

ConvertNextOver(requests) ==
    \/ \E req \in requests, jid \in JobIds \cup {NoId} : ReceiveRequest(req, jid)
    \/ \E i \in Slots : Dispatch(i)
    \/ \E i \in Slots : BodySucceed(i)
    \/ \E i \in Slots, c \in Causes : BodyFail(i, c)
    \/ \E i \in Slots : Release(i)
    \/ \E i \in Slots : Resume(i)
    \/ HandlerFinalize
    \/ \E sent \in BOOLEAN : HandlerCatch(sent)

ConvertNext == ConvertNextOver(CanonRequests)

\* requests the validation is tried on: every shape of the manifest field,
\* manifests of up to MaxEntries entries over TryNames with well and badly
\* typed fields, and every set of uploads
TryEntries ==
    {Entry(n, TRUE, TRUE) : n \in TryNames}
        \cup {Entry(<<"a", ".", "jpg">>, FALSE, TRUE), Entry(<<"a", ".", "jpg">>, TRUE, FALSE)}

TryItems == UNION {[1..n -> TryEntries] : n \in 0..MaxEntries}

TryRequests ==
    {[manifest |-> "parsed", images |-> "array", items |-> it, files |-> f] :
        it \in TryItems, f \in SUBSET UploadNames}
    \cup {[manifest |-> m, images |-> "none", items |-> <<>>, files |-> f] :
            m \in {"absent", "badJson"}, f \in SUBSET UploadNames}
    \cup {[manifest |-> "parsed", images |-> i, items |-> <<>>, files |-> f] :
            i \in {"missing", "notArray"}, f \in SUBSET UploadNames}

ValidateNext == ConvertNextOver(TryRequests)

\* ---- the limiter on its own
\* createLimiter(n) used by any caller: limit(fn) may be called at any
\* moment, in particular from a promise job that runs between the release of
\* a slot and the resumption of the waiter the release woke.
LimitCall(i) ==
    /\ tpc[i] = "none"
    /\ LimitEnter(i)
    /\ UNCHANGED <<hpc, request, nimg, reqJobId, k, cause, allErr, archive, finalized,
                   destroyed, reply>>
    /\ UNCHANGED <<chanVars, calc, drained, galVars>>

\* fn() settles: the promise awaited at "const res = await fn()" fulfils or
\* rejects; the finally block has not run yet.
FnSettle(i, ok) ==
    /\ tpc[i] = "running"
    /\ tpc' = [tpc EXCEPT ![i] = IF ok THEN "bodyOk" ELSE "bodyErr"]
    /\ UNCHANGED <<hpc, request, nimg, reqJobId, k, cause, allErr, active, queue, archive,
                   finalized, destroyed, reply>>
    /\ UNCHANGED <<chanVars, calc, drained, galVars>>

LimiterNext ==
    \/ \E i \in Slots : LimitCall(i)
    \/ \E i \in Slots, ok \in BOOLEAN : FnSettle(i, ok)
    \/ \E i \in Slots : Release(i)
    \/ \E i \in Slots : Resume(i)

\* The limiter under every order of limit() calls and completions.
SpecLimiter == Init /\ [][LimiterNext]_vars

\* archive.pipe(reply.raw): the sink takes the entries in append order, one
\* at a time, whenever it is ready; archive.append only queues the buffer and
\* returns, so no task ever waits for the sink.
Drain ==
    /\ ~destroyed
    /\ drained < Len(archive)
    /\ drained' = drained + 1
    /\ UNCHANGED <<convVars, chanVars, calc, galVars>>

StreamNext ==
    \/ ConvertNext
    \/ Drain

\* The convert route together with the sink draining the archive.
SpecStream == Init /\ [][StreamNext]_vars

\* The convert route on well-formed and malformed requests.
SpecValidate == Init /\ [][ValidateNext]_vars

Spec == Init /\ [][ConvertNext]_vars

\* The route when every step that is ready is eventually run: the event loop
\* runs every ready callback and promise job, and every conversion settles
\* (it succeeds or fails).
Fairness ==
    /\ \A i \in Slots : WF_vars(Dispatch(i))
    /\ \A i \in Slots : WF_vars(BodySucceed(i) \/ \E c \in Causes : BodyFail(i, c))
    /\ \A i \in Slots : WF_vars(Release(i))
    /\ \A i \in Slots : WF_vars(Resume(i))
    /\ WF_vars(HandlerFinalize)
    /\ WF_vars(\E sent \in BOOLEAN : HandlerCatch(sent))

SpecLive == Init /\ [][ConvertNext]_vars /\ Fairness

\* ======================================================= progress channel
Terminal == {"completed", "error"}

Event(type, current, total) == [type |-> type, current |-> current, total |-> total]

\* writeSseEvent on every sink of L (a failing res.write is swallowed).
WriteAll(lg, L, evt) == [s \in Sinks |-> IF s \in L THEN Append(lg[s], evt) ELSE lg[s]]

\* jobs.get(jobId) after the create-if-missing prelude of subscribe / startJob
NewRef == Len(heap) + 1

\* A subscribe that registers the sink without replaying the snapshot.
Subscribe_NoSnapshot(jobId, res) ==
    /\ handle[res] = NoId
    /\ \/ jobs[jobId] # 0
       \/ Len(heap) < MaxRecords
    /\ LET created == jobs[jobId] = 0
           r == IF created THEN NewRef ELSE jobs[jobId]
           h1 == IF created
                 THEN Append(heap, [jobId |-> jobId, total |-> 0, current |-> 0,
                                    status |-> "pending", listeners |-> {}])
                 ELSE heap
       IN /\ heap' = [h1 EXCEPT ![r].listeners = @ \cup {res}]
          /\ jobs' = [jobs EXCEPT ![jobId] = r]
          /\ log' = log
    /\ handle' = [handle EXCEPT ![res] = jobId]
    /\ UNCHANGED <<ended, publishes>>
    /\ UNCHANGED <<convVars, calc, drained, galVars>>

\* A subscribe that makes a fresh job state on every call.
Subscribe_AlwaysNew(jobId, res) ==
    /\ handle[res] = NoId
    /\ Len(heap) < MaxRecords
    /\ LET r == NewRef
           h1 == Append(heap, [jobId |-> jobId, total |-> 0, current |-> 0,
                               status |-> "pending", listeners |-> {}])
       IN /\ heap' = [h1 EXCEPT ![r].listeners = @ \cup {res}]
          /\ jobs' = [jobs EXCEPT ![jobId] = r]
          /\ log' = WriteAll(log, {res}, Event("init", h1[r].current, h1[r].total))
    /\ handle' = [handle EXCEPT ![res] = jobId]
    /\ UNCHANGED <<ended, publishes>>
    /\ UNCHANGED <<convVars, calc, drained, galVars>>

\* subscribe(jobId, res): called by the /api/progress/:jobId route with the
\* fresh response of the request.
Subscribe(jobId, res) ==
    /\ handle[res] = NoId
    /\ \/ jobs[jobId] # 0
       \/ Len(heap) < MaxRecords
    /\ LET created == jobs[jobId] = 0
           r == IF created THEN NewRef ELSE jobs[jobId]
           h1 == IF created
                 THEN Append(heap, [jobId |-> jobId, total |-> 0, current |-> 0,
                                    status |-> "pending", listeners |-> {}])
                 ELSE heap
       IN /\ heap' = [h1 EXCEPT ![r].listeners = @ \cup {res}]
          /\ jobs' = [jobs EXCEPT ![jobId] = r]
          /\ log' = WriteAll(log, {res}, Event("init", h1[r].current, h1[r].total))
    /\ handle' = [handle EXCEPT ![res] = jobId]
    /\ UNCHANGED <<ended, publishes>>
    /\ UNCHANGED <<convVars, calc, drained, galVars>>

\* A closure that empties the listener set of the job it finds.
Unsubscribe_ClearsAll(res) ==
    /\ handle[res] # NoId
    /\ LET jobId == handle[res]
           r == jobs[jobId]
       IN IF r # 0
          THEN /\ heap' = [heap EXCEPT ![r].listeners = {}]
               /\ ended' = [ended EXCEPT ![res] = TRUE]
               /\ jobs' = IF heap[r].status \in Terminal
                          THEN [jobs EXCEPT ![jobId] = 0]
                          ELSE jobs
          ELSE UNCHANGED <<heap, ended, jobs>>
    /\ UNCHANGED <<log, handle, publishes>>
    /\ UNCHANGED <<convVars, calc, drained, galVars>>

\* The closure returned by subscribe; the route calls it on the response's
\* 'close' event. It looks the job up again by id.
Unsubscribe(res) ==
    /\ handle[res] # NoId
    /\ LET jobId == handle[res]
           r == jobs[jobId]
       IN IF r # 0
          THEN LET left == heap[r].listeners \ {res}
               IN /\ heap' = [heap EXCEPT ![r].listeners = left]
                  /\ ended' = [ended EXCEPT ![res] = TRUE]
                  /\ jobs' = IF left = {} /\ heap[r].status \in Terminal
                             THEN [jobs EXCEPT ![jobId] = 0]
                             ELSE jobs
          ELSE UNCHANGED <<heap, ended, jobs>>
    /\ UNCHANGED <<log, handle, publishes>>
    /\ UNCHANGED <<convVars, calc, drained, galVars>>

\* A startJob that keeps the current count of a job that already exists.
StartJob_KeepsCurrent(jobId, total) ==
    /\ publishes < MaxPublishes
    /\ publishes' = publishes + 1
    /\ \/ jobs[jobId] # 0
       \/ Len(heap) < MaxRecords
    /\ LET created == jobs[jobId] = 0
           r == IF created THEN NewRef ELSE jobs[jobId]
           h1 == IF created
                 THEN Append(heap, [jobId |-> jobId, total |-> total, current |-> 0,
                                    status |-> "running", listeners |-> {}])
                 ELSE [heap EXCEPT ![r].total = total, ![r].status = "running"]
       IN /\ heap' = h1
          /\ jobs' = [jobs EXCEPT ![jobId] = r]
          /\ log' = WriteAll(log, h1[r].listeners, Event("init", h1[r].current, h1[r].total))
    /\ UNCHANGED <<ended, handle>>
    /\ UNCHANGED <<convVars, calc, drained, galVars>>

\* startJob(jobId, total): create the job running, or reset the existing one,
\* and broadcast an init snapshot to its listeners.
StartJob(jobId, total) ==
    /\ publishes < MaxPublishes
    /\ publishes' = publishes + 1
    /\ \/ jobs[jobId] # 0
       \/ Len(heap) < MaxRecords
    /\ LET created == jobs[jobId] = 0
           r == IF created THEN NewRef ELSE jobs[jobId]
           h1 == IF created
                 THEN Append(heap, [jobId |-> jobId, total |-> total, current |-> 0,
                                    status |-> "running", listeners |-> {}])
                 ELSE [heap EXCEPT ![r].total = total, ![r].current = 0,
                                   ![r].status = "running"]
       IN /\ heap' = h1
          /\ jobs' = [jobs EXCEPT ![jobId] = r]
          /\ log' = WriteAll(log, h1[r].listeners, Event("init", h1[r].current, h1[r].total))
    /\ UNCHANGED <<ended, handle>>
    /\ UNCHANGED <<convVars, calc, drained, galVars>>

ReportProgress(jobId, current, total) ==
    /\ publishes < MaxPublishes
    /\ publishes' = publishes + 1
    /\ LET r == jobs[jobId]
       IN IF r = 0
          THEN UNCHANGED <<heap, log>>
          ELSE /\ heap' = [heap EXCEPT ![r].current = current, ![r].total = total]
               /\ log' = WriteAll(log, heap[r].listeners, Event("progress", current, total))
    /\ UNCHANGED <<jobs, ended, handle>>
    /\ UNCHANGED <<convVars, calc, drained, galVars>>

\* A completeJob that leaves the entry in the registry.
CompleteJob_KeepsEntry(jobId) ==
    /\ jobs[jobId] # 0
    /\ LET r == jobs[jobId]
           L == heap[r].listeners
       IN /\ heap' = [heap EXCEPT ![r].status = "completed"]
          /\ log' = WriteAll(log, L, Event("complete", heap[r].current, heap[r].total))
          /\ ended' = [s \in Sinks |-> ended[s] \/ s \in L]
    /\ UNCHANGED <<jobs, handle, publishes>>
    /\ UNCHANGED <<convVars, calc, drained, galVars>>

\* completeJob(jobId): set the status, broadcast, end every listener, delete
\* the registry entry.
CompleteJob(jobId) ==
    /\ jobs[jobId] # 0
    /\ LET r == jobs[jobId]
           L == heap[r].listeners
       IN /\ heap' = [heap EXCEPT ![r].status = "completed"]
          /\ log' = WriteAll(log, L, Event("complete", heap[r].current, heap[r].total))
          /\ ended' = [s \in Sinks |-> ended[s] \/ s \in L]
    /\ jobs' = [jobs EXCEPT ![jobId] = 0]
    /\ UNCHANGED <<handle, publishes>>
    /\ UNCHANGED <<convVars, calc, drained, galVars>>

\* An errorJob that leaves the entry in the registry.
ErrorJob_KeepsEntry(jobId) ==
    /\ jobs[jobId] # 0
    /\ LET r == jobs[jobId]
           L == heap[r].listeners
       IN /\ heap' = [heap EXCEPT ![r].status = "error"]
          /\ log' = WriteAll(log, L, Event("error", heap[r].current, heap[r].total))
          /\ ended' = [s \in Sinks |-> ended[s] \/ s \in L]
    /\ UNCHANGED <<jobs, handle, publishes>>
    /\ UNCHANGED <<convVars, calc, drained, galVars>>

\* An errorJob that broadcasts but never ends its listeners.
ErrorJob_NoEnd(jobId) ==
    /\ jobs[jobId] # 0
    /\ LET r == jobs[jobId]
           L == heap[r].listeners
       IN /\ heap' = [heap EXCEPT ![r].status = "error"]
          /\ log' = WriteAll(log, L, Event("error", heap[r].current, heap[r].total))
    /\ jobs' = [jobs EXCEPT ![jobId] = 0]
    /\ UNCHANGED <<ended, handle, publishes>>
    /\ UNCHANGED <<convVars, calc, drained, galVars>>

\* errorJob(jobId, message): the same with status 'error' and an error event
\* (the message travels in the event and is not modelled).
ErrorJob(jobId) ==
    /\ jobs[jobId] # 0
    /\ LET r == jobs[jobId]
           L == heap[r].listeners
       IN /\ heap' = [heap EXCEPT ![r].status = "error"]
          /\ log' = WriteAll(log, L, Event("error", heap[r].current, heap[r].total))
          /\ ended' = [s \in Sinks |-> ended[s] \/ s \in L]
    /\ jobs' = [jobs EXCEPT ![jobId] = 0]
    /\ UNCHANGED <<handle, publishes>>
    /\ UNCHANGED <<convVars, calc, drained, galVars>>

ChannelNext ==
    \/ \E j \in JobIds, s \in Sinks : Subscribe(j, s)
    \/ \E s \in Sinks : Unsubscribe(s)
    \/ \E j \in JobIds, t \in Totals : StartJob(j, t)
    \/ \E j \in JobIds, c \in Counts, t \in Totals : ReportProgress(j, c, t)
    \/ \E j \in JobIds : CompleteJob(j)
    \/ \E j \in JobIds : ErrorJob(j)

\* The progress channel under every sequence of calls of its API.
SpecChannel == Init /\ [][ChannelNext]_vars

\* The server as wired in this repository: one conversion request, and
\* clients opening and closing /api/progress/:jobId streams. The convert
\* route calls none of startJob / reportProgress / completeJob / errorJob.
ServerNext ==
    \/ ConvertNext
    \/ \E j \in JobIds, s \in Sinks : Subscribe(j, s)
    \/ \E s \in Sinks : Unsubscribe(s)

SpecServer == Init /\ [][ServerNext]_vars

\* ------------------------------------------------------------ crop window
\* convertToBmp565WithDither computes the rectangle it hands to sharp's
\* extract().  The repository holds two versions of that computation:
\* server/src/lib/image.ts (rounded crop height, always full width) and the
\* "safe crop rectangle" one (floored crop height, centred fallback).
\* cropY is a JavaScript number, so it is carried in halves: y2 = 2 * cropY.
\* Tops are carried in halves too (top2 = 2 * top).
TARGET_WIDTH == 800
TARGET_HEIGHT == 480
MaxDim == 6         \* largest small width / height tried

Max(a, b) == IF a >= b THEN a ELSE b
Min(a, b) == IF a <= b THEN a ELSE b

\* Math.round(n / TARGET_ASPECT) and Math.floor(n / TARGET_ASPECT), where
\* TARGET_ASPECT = TARGET_WIDTH / TARGET_HEIGHT
RoundOverAspect(n) == (2 * n * TARGET_HEIGHT + TARGET_WIDTH) \div (2 * TARGET_WIDTH)
FloorOverAspect(n) == (n * TARGET_HEIGHT) \div TARGET_WIDTH
\* Math.floor(n * TARGET_ASPECT)
FloorTimesAspect(n) == (n * TARGET_WIDTH) \div TARGET_HEIGHT

Rect(left, top2, width, height) ==
    [left |-> left, top2 |-> top2, width |-> width, height |-> height]

ExtractRect_NoLowerClamp(naturalWidth, naturalHeight, y2) ==
    LET cropHeight == RoundOverAspect(naturalWidth)
        maxY == Max(0, naturalHeight - cropHeight)
    IN  Rect(0, Min(y2, 2 * maxY), naturalWidth, cropHeight)

\* server/src/lib/image.ts
ExtractRect(naturalWidth, naturalHeight, y2) ==
    LET cropHeight == RoundOverAspect(naturalWidth)
        maxY == Max(0, naturalHeight - cropHeight)
        top2 == Max(0, Min(y2, 2 * maxY))
    IN  Rect(0, top2, naturalWidth, cropHeight)

\* the safe crop rectangle version
SafeExtractRect(naturalWidth, naturalHeight, y2) ==
    LET fullWidthCropHeight == FloorOverAspect(naturalWidth)
    IN  IF fullWidthCropHeight <= naturalHeight
        THEN LET extractHeight == fullWidthCropHeight
                 maxTop == Max(0, naturalHeight - extractHeight)
                 extractTop == Max(0, Min(y2 \div 2, maxTop))
             IN  Rect(0, 2 * extractTop, naturalWidth, extractHeight)
        ELSE LET extractHeight == naturalHeight
                 extractWidth == FloorTimesAspect(naturalHeight)
                 extractLeft == Max(0, (naturalWidth - extractWidth) \div 2)
             IN  Rect(extractLeft, 0, extractWidth, extractHeight)

SourceSizes ==
    ((1..MaxDim) \X (1..MaxDim)) \cup {<<800, 1000>>, <<1600, 900>>}
HalfYs(naturalHeight) == (-3)..(2 * naturalHeight + 3)

Extract(naturalWidth, naturalHeight, y2) ==
    /\ calc = NoCalc
    /\ calc' = [op |-> "extract", nw |-> naturalWidth, nh |-> naturalHeight,
                y2 |-> y2, rect |-> ExtractRect(naturalWidth, naturalHeight, y2)]
    /\ UNCHANGED <<convVars, chanVars, drained, galVars>>

SafeExtract(naturalWidth, naturalHeight, y2) ==
    /\ calc = NoCalc
    /\ calc' = [op |-> "safeExtract", nw |-> naturalWidth, nh |-> naturalHeight,
                y2 |-> y2, rect |-> SafeExtractRect(naturalWidth, naturalHeight, y2)]
    /\ UNCHANGED <<convVars, chanVars, drained, galVars>>

CropNext ==
    \E sz \in SourceSizes : \E y2 \in HalfYs(sz[2]) :
        \/ Extract(sz[1], sz[2], y2)
        \/ SafeExtract(sz[1], sz[2], y2)

SpecCrop == Init /\ [][CropNext]_vars

\* -------------------------------------------------------- crop suggestion
\* POST /api/suggest-crop (server/src/routes/suggest.ts) and the selection
\* algorithm suggestYForFaces written out in docs/prd/face-detection.md.
\* A Box keeps the fields the algorithm reads: y, height, width and the
\* optional confidence, in tenths (conf10, meaningful when hasConf).
\* Centres are carried in halves: cy2 = 2 * cy = 2 * y + height.
MaxFaces == 3       \* longest face list tried

Box(y, height, width, hasConf, conf10) ==
    [y |-> y, height |-> height, width |-> width, hasConf |-> hasConf, conf10 |-> conf10]

\* (f.confidence ?? 1) >= minConfidence, in tenths
Confident(f, minConfidence10) ==
    (IF f.hasConf THEN f.conf10 ELSE 10) >= minConfidence10

RECURSIVE InsertByArea(_, _)
InsertByArea(sorted, f) ==
    IF sorted = <<>> THEN <<f>>
    ELSE IF Head(sorted).area >= f.area
         THEN <<Head(sorted)>> \o InsertByArea(Tail(sorted), f)
         ELSE <<f>> \o sorted

\* .map(f => ({...f, area, cy})).sort((a, b) => b.area - a.area), a stable sort
RECURSIVE Ranked(_)
Ranked(filtered) ==
    IF filtered = <<>> THEN <<>>
    ELSE LET n == Len(filtered)
             f == filtered[n]
         IN  InsertByArea(Ranked(SubSeq(filtered, 1, n - 1)),
                          [area |-> f.width * f.height, cy2 |-> 2 * f.y + f.height])

\* start = Math.max(0, Math.floor(cy - cropHeight)), end = Math.min(maxY, Math.ceil(cy))
IntervalOf(f, cropHeight, maxY) ==
    [start |-> Max(0, (f.cy2 - 2 * cropHeight) \div 2),
     end |-> Min(maxY, (f.cy2 + 1) \div 2),
     area |-> f.area]

RECURSIVE SumAreas(_, _)
SumAreas(ranks, iv) ==
    IF ranks = {} THEN 0
    ELSE LET r == CHOOSE x \in ranks : TRUE
         IN  iv[r].area + SumAreas(ranks \ {r}, iv)

\* lexBetter: ranks are 0-based in the code and 1-based here
LexBetter(a, b) ==
    LET max == Max(Cardinality(a), Cardinality(b)) + 64
        differ == {r \in (a \cup b) : (r - 1 < max) /\ ((r \in a) # (r \in b))}
    IN  differ # {} /\ (CHOOSE r \in differ : \A q \in differ : r <= q) \in a

NoBest == [y |-> 0, count |-> -1, ranks |-> {}, areaSum |-> -1]

\* the loop over the sorted endpoints, one position at a time: the endpoints
\* of one position are adjacent after the sort, only the first of them can
\* pass ep.y > prevY, and starts come before ends
RECURSIVE Sweep(_, _, _, _, _, _, _)
Sweep(todo, prevY, activeSet, best, iv, valid, maxY) ==
    IF todo = {} THEN best
    ELSE LET p == CHOOSE x \in todo : \A z \in todo : x <= z
             yMid == Min(maxY, Max(0, (prevY + p) \div 2))
             count == Cardinality(activeSet)
             areaSum == SumAreas(activeSet, iv)
             betterCount == count > best.count
             betterRanks == ~betterCount /\ count = best.count
                                /\ LexBetter(activeSet, best.ranks)
             betterArea == ~betterCount /\ ~betterRanks /\ count = best.count
                                /\ areaSum > best.areaSum
             best2 == IF p > prevY /\ activeSet # {}
                            /\ (betterCount \/ betterRanks \/ betterArea)
                      THEN [y |-> yMid, count |-> count, ranks |-> activeSet,
                            areaSum |-> areaSum]
                      ELSE best
             active2 == (activeSet \cup {r \in valid : iv[r].start = p})
                            \ {r \in valid : iv[r].end = p}
         IN  Sweep(todo \ {p}, p, active2, best2, iv, valid, maxY)

\* An algorithm whose no-face fallback is not clamped.
SuggestYForFaces_RawFallback(width, height, faces, minConfidence10) ==
    LET cropHeight == RoundOverAspect(width)
        maxY == Max(0, height - cropHeight)
        filtered == SelectSeq(faces, LAMBDA f : Confident(f, minConfidence10))
    IN  IF filtered = <<>>
        THEN (height - cropHeight + 1) \div 2
        ELSE LET ranked == Ranked(filtered)
                 iv == [r \in 1..Len(ranked) |-> IntervalOf(ranked[r], cropHeight, maxY)]
                 valid == {r \in 1..Len(ranked) : iv[r].start <= iv[r].end}
                 endpoints == {iv[r].start : r \in valid} \cup {iv[r].end : r \in valid}
                 best == Sweep(endpoints, 0, {}, NoBest, iv, valid, maxY)
             IN  Max(0, Min(maxY, best.y))

SuggestYForFaces(width, height, faces, minConfidence10) ==
    LET cropHeight == RoundOverAspect(width)
        maxY == Max(0, height - cropHeight)
        filtered == SelectSeq(faces, LAMBDA f : Confident(f, minConfidence10))
    IN  IF filtered = <<>>
        THEN Max(0, Min(maxY, (height - cropHeight + 1) \div 2))
        ELSE LET ranked == Ranked(filtered)
                 iv == [r \in 1..Len(ranked) |-> IntervalOf(ranked[r], cropHeight, maxY)]
                 valid == {r \in 1..Len(ranked) : iv[r].start <= iv[r].end}
                 endpoints == {iv[r].start : r \in valid} \cup {iv[r].end : r \in valid}
                 best == Sweep(endpoints, 0, {}, NoBest, iv, valid, maxY)
             IN  Max(0, Min(maxY, best.y))

DefaultMinConfidence10 == 6
MinConfidences == {6, 9}

\* widths 5 and 250 give cropHeight 3 and 150; 5 x 2 and 5 x 1 are too short
\* for the band
SuggestSizes ==
    {<<5, 6>>, <<5, 7>>, <<5, 2>>, <<5, 1>>, <<2, 6>>, <<250, 400>>, <<800, 1000>>}

Boxes ==
    { Box(0, 2, 2, FALSE, 0), Box(3, 2, 1, FALSE, 0), Box(2, 1, 1, TRUE, 8),
      Box(5, 1, 2, TRUE, 10), Box(1, 2, 1, TRUE, 5), Box(4, 2, 2, TRUE, 9),
      Box(80, 40, 2, FALSE, 0), Box(290, 20, 2, FALSE, 0) }

FaceLists == UNION {[1..n -> Boxes] : n \in 0..MaxFaces}

\* the algorithm of the design document applied to one image
SuggestY(width, height, faces, minConfidence10) ==
    /\ calc = NoCalc
    /\ calc' = [op |-> "suggestY", nw |-> width, nh |-> height, faces |-> faces,
                minConfidence10 |-> minConfidence10,
                y |-> SuggestYForFaces(width, height, faces, minConfidence10)]
    /\ UNCHANGED <<convVars, chanVars, drained, galVars>>

\* the route: whatever faces the image shows, it replies y = 0 with the
\* natural dimensions
SuggestRoute(width, height, faces) ==
    /\ calc = NoCalc
    /\ calc' = [op |-> "suggestRoute", nw |-> width, nh |-> height, faces |-> faces,
                minConfidence10 |-> DefaultMinConfidence10,
                y |-> 0]
    /\ UNCHANGED <<convVars, chanVars, drained, galVars>>

SuggestNext ==
    \E sz \in SuggestSizes : \E faces \in FaceLists :
        \/ \E m \in MinConfidences : SuggestY(sz[1], sz[2], faces, m)
        \/ SuggestRoute(sz[1], sz[2], faces)

SpecSuggest == Init /\ [][SuggestNext]_vars

\* ---- the same algorithm, endpoint by endpoint
\* endpoints.sort((a, b) => a.y - b.y || (a.type === 'start' ? -1 : 1)) does
\* not order two starts, or two ends, of one position: their order is left to
\* the engine's sort. A tie order pri (a priority per rank) stands for one
\* such outcome.
MaxOrderFaces == 2  \* longest face list evaluated under every tie order

TieOrders ==
    {pri \in [1..MaxOrderFaces -> 1..MaxOrderFaces] :
        \A a, b \in 1..MaxOrderFaces : a # b => pri[a] # pri[b]}

Endpoint(y, type, rank) == [y |-> y, type |-> type, rank |-> rank]

Before(e, f, pri) ==
    \/ e.y < f.y
    \/ /\ e.y = f.y
       /\ \/ e.type = "start" /\ f.type = "end"
          \/ e.type = f.type /\ pri[e.rank] < pri[f.rank]

RECURSIVE SortEndpoints(_, _)
SortEndpoints(eps, pri) ==
    IF eps = {} THEN <<>>
    ELSE LET e == CHOOSE x \in eps : \A z \in eps \ {x} : Before(x, z, pri)
         IN  <<e>> \o SortEndpoints(eps \ {e}, pri)

\* for (const ep of endpoints) { ... }
RECURSIVE SweepEndpoints(_, _, _, _, _, _)
SweepEndpoints(eps, prevY, activeSet, best, iv, maxY) ==
    IF eps = <<>> THEN best
    ELSE LET ep == Head(eps)
             yMid == Min(maxY, Max(0, (prevY + ep.y) \div 2))
             count == Cardinality(activeSet)
             areaSum == SumAreas(activeSet, iv)
             betterCount == count > best.count
             betterRanks == ~betterCount /\ count = best.count
                                /\ LexBetter(activeSet, best.ranks)
             betterArea == ~betterCount /\ ~betterRanks /\ count = best.count
                                /\ areaSum > best.areaSum
             best2 == IF ep.y > prevY /\ activeSet # {}
                            /\ (betterCount \/ betterRanks \/ betterArea)
                      THEN [y |-> yMid, count |-> count, ranks |-> activeSet,
                            areaSum |-> areaSum]
                      ELSE best
             active2 == IF ep.type = "start" THEN activeSet \cup {ep.rank}
                        ELSE activeSet \ {ep.rank}
         IN  SweepEndpoints(Tail(eps), ep.y, active2, best2, iv, maxY)

\* an algorithm whose ranking of the faces follows the tie order instead of
\* the areas
SuggestYInOrder_RankByOrder(width, height, faces, minConfidence10, pri) ==
    LET cropHeight == RoundOverAspect(width)
        maxY == Max(0, height - cropHeight)
        filtered == SelectSeq(faces, LAMBDA f : Confident(f, minConfidence10))
    IN  IF filtered = <<>>
        THEN Max(0, Min(maxY, (height - cropHeight + 1) \div 2))
        ELSE LET sorted == Ranked(filtered)
                 byPri == {r \in 1..Len(sorted) :
                              \A q \in 1..Len(sorted) : pri[r] <= pri[q]}
                 first == CHOOSE r \in byPri : TRUE
                 ranked == [r \in 1..Len(sorted) |->
                               IF r = 1 THEN sorted[first]
                               ELSE IF r <= first THEN sorted[r - 1] ELSE sorted[r]]
                 iv == [r \in 1..Len(ranked) |-> IntervalOf(ranked[r], cropHeight, maxY)]
                 valid == {r \in 1..Len(ranked) : iv[r].start <= iv[r].end}
                 endpoints == {Endpoint(iv[r].start, "start", r) : r \in valid}
                                  \cup {Endpoint(iv[r].end, "end", r) : r \in valid}
                 best == SweepEndpoints(SortEndpoints(endpoints, pri), 0, {}, NoBest,
                                        iv, maxY)
             IN  Max(0, Min(maxY, best.y))

\* suggestYForFaces on an engine whose sort leaves tied endpoints in order pri
SuggestYInOrder(width, height, faces, minConfidence10, pri) ==
    LET cropHeight == RoundOverAspect(width)
        maxY == Max(0, height - cropHeight)
        filtered == SelectSeq(faces, LAMBDA f : Confident(f, minConfidence10))
    IN  IF filtered = <<>>
        THEN Max(0, Min(maxY, (height - cropHeight + 1) \div 2))
        ELSE LET ranked == Ranked(filtered)
                 iv == [r \in 1..Len(ranked) |-> IntervalOf(ranked[r], cropHeight, maxY)]
                 valid == {r \in 1..Len(ranked) : iv[r].start <= iv[r].end}
                 endpoints == {Endpoint(iv[r].start, "start", r) : r \in valid}
                                  \cup {Endpoint(iv[r].end, "end", r) : r \in valid}
                 best == SweepEndpoints(SortEndpoints(endpoints, pri), 0, {}, NoBest,
                                        iv, maxY)
             IN  Max(0, Min(maxY, best.y))

OrderFaceLists == UNION {[1..n -> Boxes] : n \in 0..MaxOrderFaces}

\* two evaluations of the algorithm on the same input
SuggestTwice(width, height, faces, minConfidence10, pri1, pri2) ==
    /\ calc = NoCalc
    /\ calc' = [op |-> "suggestTwice", nw |-> width, nh |-> height, faces |-> faces,
                minConfidence10 |-> minConfidence10,
                y |-> SuggestYInOrder(width, height, faces, minConfidence10, pri1),
                again |-> SuggestYInOrder(width, height, faces, minConfidence10, pri2)]
    /\ UNCHANGED <<convVars, chanVars, drained, galVars>>

SuggestTwiceNext ==
    \E sz \in SuggestSizes, faces \in OrderFaceLists, m \in MinConfidences :
        \E pri1, pri2 \in TieOrders : SuggestTwice(sz[1], sz[2], faces, m, pri1, pri2)

SpecSuggestTwice == Init /\ [][SuggestTwiceNext]_vars

\* ------------------------------------------------------ archive entry name
\* base = img.fileName.replace(/\.[^/.]+$/, ''); outName = `${base}_800x480.bmp`
\* A file name is a sequence of tokens: "." and "/" stand for themselves,
\* every other token for one or more characters that are neither.
MaxNameLen == 5     \* longest file name tried, in tokens

NameTokens == {"a", "jpg", ".", "/"}
FileNames == UNION {[1..n -> NameTokens] : n \in 1..MaxNameLen}

\* the pattern \.[^/.]+$ matches at position i
MatchesAt(name, i) ==
    /\ name[i] = "."
    /\ i < Len(name)
    /\ \A j \in (i + 1)..Len(name) : name[j] \notin {"/", "."}

StripFirstDot(name) ==
    LET dots == {i \in 1..Len(name) : name[i] = "."}
    IN  IF dots = {} THEN name
        ELSE SubSeq(name, 1, (CHOOSE i \in dots : \A j \in dots : i <= j) - 1)

\* String.prototype.replace with a non-global pattern: the leftmost match
StripExtension(name) ==
    LET hits == {i \in 1..Len(name) : MatchesAt(name, i)}
    IN  IF hits = {} THEN name
        ELSE SubSeq(name, 1, (CHOOSE i \in hits : \A j \in hits : i <= j) - 1)

OutName(fileName) ==
    /\ calc = NoCalc
    /\ calc' = [op |-> "outName", fileName |-> fileName,
                outName |-> StripExtension(fileName) \o <<"_800x480", ".", "bmp">>]
    /\ UNCHANGED <<convVars, chanVars, drained, galVars>>

NameNext == \E fileName \in FileNames : OutName(fileName)

SpecName == Init /\ [][NameNext]_vars

\* ================================================================ gallery
\* values a suggestion carries and values the user drags to
SuggestedYs == {0, 1}
DragYs == {1, 2}

\* cropY of the card of an image (NoY: no card)
CropYOf(id) ==
    LET S == {i \in 1..Len(imageData) : imageData[i].id = id}
    IN IF S = {} THEN NoY ELSE imageData[CHOOSE i \in S : TRUE].cropY

\* prev.map(d => d.id === id ? { ...d, cropY } : d)
SetCropY(data, id, y) ==
    [i \in 1..Len(data) |-> IF data[i].id = id THEN [data[i] EXCEPT !.cropY = y] ELSE data[i]]

\* One iteration of the loop of loadImages for a new file: read the persisted
\* y, push the card, and ask for a suggestion only when there is none.
LoadImage ==
    /\ loadIdx <= MaxGallery
    /\ LET id == loadIdx
           persistedY == store[id]
       IN /\ nextData' = Append(nextData,
                 [id |-> id, cropY |-> IF persistedY = NoY THEN 0 ELSE persistedY])
          /\ suggest' = IF persistedY = NoY
                        THEN [suggest EXCEPT ![id] = "inflight"]
                        ELSE suggest
    /\ loadIdx' = loadIdx + 1
    /\ UNCHANGED <<imageData, txs, store, userY>>
    /\ UNCHANGED <<convVars, chanVars, drained, calc>>

\* The image element fails to load: the catch reports it and the loop goes on.
LoadImageFail ==
    /\ loadIdx <= MaxGallery
    /\ loadIdx' = loadIdx + 1
    /\ UNCHANGED <<imageData, nextData, suggest, txs, store, userY>>
    /\ UNCHANGED <<convVars, chanVars, drained, calc>>

\* After the loop: setImageData(nextData).
LoadFinish ==
    /\ loadIdx = MaxGallery + 1
    /\ imageData' = nextData
    /\ loadIdx' = loadIdx + 1
    /\ UNCHANGED <<nextData, suggest, txs, store, userY>>
    /\ UNCHANGED <<convVars, chanVars, drained, calc>>

\* The then-callback of suggestCrop: show the suggested y and persist it.
SuggestResolve(id, y) ==
    /\ suggest[id] = "inflight"
    /\ suggest' = [suggest EXCEPT ![id] = "settled"]
    /\ imageData' = SetCropY(imageData, id, y)
    /\ txs' = Append(txs, <<id, y>>)
    /\ UNCHANGED <<nextData, loadIdx, store, userY>>
    /\ UNCHANGED <<convVars, chanVars, drained, calc>>

\* The catch-callback of suggestCrop: the error is ignored.
SuggestReject(id) ==
    /\ suggest[id] = "inflight"
    /\ suggest' = [suggest EXCEPT ![id] = "settled"]
    /\ UNCHANGED <<imageData, nextData, loadIdx, txs, store, userY>>
    /\ UNCHANGED <<convVars, chanVars, drained, calc>>

\* The user drags the card at index to cropY.
UpdateCropPosition(index, cropY) ==
    /\ index \in 1..Len(imageData)
    /\ Len(txs) < MaxTxs
    /\ LET id == imageData[index].id
       IN /\ imageData' = [imageData EXCEPT ![index].cropY = cropY]
          /\ txs' = Append(txs, <<id, cropY>>)
          /\ userY' = [userY EXCEPT ![id] = cropY]
    /\ UNCHANGED <<nextData, loadIdx, suggest, store>>
    /\ UNCHANGED <<convVars, chanVars, drained, calc>>

\* updateImageY: the oldest readwrite transaction reads the record, sets y
\* and commits.
UpdateImageY ==
    /\ txs # <<>>
    /\ store' = [store EXCEPT ![Head(txs)[1]] = Head(txs)[2]]
    /\ txs' = Tail(txs)
    /\ UNCHANGED <<imageData, nextData, loadIdx, suggest, userY>>
    /\ UNCHANGED <<convVars, chanVars, drained, calc>>

\* The page is opened again once everything has settled: the component
\* state starts over, the store is kept.
Remount ==
    /\ loadIdx = MaxGallery + 2
    /\ txs = <<>>
    /\ \A id \in GalleryIds : suggest[id] # "inflight"
    /\ imageData' = <<>>
    /\ nextData' = <<>>
    /\ loadIdx' = 1
    /\ suggest' = [id \in GalleryIds |-> "none"]
    /\ userY' = [id \in GalleryIds |-> NoY]
    /\ UNCHANGED <<txs, store>>
    /\ UNCHANGED <<convVars, chanVars, drained, calc>>

GalleryNext ==
    \/ LoadImage
    \/ LoadImageFail
    \/ LoadFinish
    \/ \E id \in GalleryIds, y \in SuggestedYs : SuggestResolve(id, y)
    \/ \E id \in GalleryIds : SuggestReject(id)
    \/ \E index \in GalleryIds, cropY \in DragYs : UpdateCropPosition(index, cropY)
    \/ UpdateImageY
    \/ Remount

SpecGallery == Init /\ [][GalleryNext]_vars

\* ================================================================ claims
Running == {i \in Slots : tpc[i] = "running"}
Failed(i) == tpc[i] \in {"bodyErr", "rejected"}
SomeFailed == \E i \in Slots : Failed(i)
Last(q) == q[Len(q)]
Registered(s) == \E j \in JobIds : jobs[j] # 0 /\ s \in heap[jobs[j]].listeners
Rank(st) == IF st = "pending" THEN 0 ELSE IF st = "running" THEN 1 ELSE 2

\* C1: with the limiter of the convert route (limit 2, every task handed over
\* by the synchronous map), at most 2 task bodies are mid-execution in every
\* reachable state, the states between a release and the woken waiter's
\* resumption included.
C1_ConcurrencyBound == Cardinality(Running) <= MaxConcurrent

\* a waiter has been woken and has not resumed, while another body runs
C1_Witness == \E i, j \in Slots : tpc[i] = "woken" /\ tpc[j] = "running"

\* C2: once a task of the batch has failed, no task that was still waiting
\* for a slot (parked, or woken and not yet resumed) starts executing.
C2_NoStartAfterFailure ==
    [][SomeFailed =>
         \A j \in Slots : tpc[j] \in {"waiting", "woken"} => tpc'[j] # "running"]_vars

\* C3: no archive append happens after the handler has observed the first
\* failure (its catch block has run).
C3_NoAppendAfterFailure == [][hpc = "failed" => archive' = archive]_vars

\* C4: in a batch where some task failed, the archive is never finalized.
C4_NoFinalizeOnFailure == SomeFailed => ~finalized

\* the batch failed on an entry that is not the first, after the first succeeded
C4_Witness ==
    /\ hpc = "failed"
    /\ tpc[1] = "resolved"
    /\ \E i \in Slots : i > 1 /\ tpc[i] = "rejected"

\* C5: when a batch with a job id fails, the sinks subscribed to that job
\* receive a terminal error event: at the step where the handler reports the
\* failure, every listener of the job gets an error event as its last event.
C5_ErrorEventOnFailure ==
    [][(hpc = "awaitAll" /\ hpc' = "failed" /\ reqJobId # NoId /\ jobs[reqJobId] # 0) =>
         \A s \in heap[jobs[reqJobId]].listeners :
             log'[s] # <<>> /\ Last(log'[s]).type = "error"]_vars

\* C6: a batch of K entries whose tasks all succeed is finalized, and a
\* finalized archive holds exactly K entries, each manifest entry once.
C6_ArchiveComplete ==
    /\ finalized =>
         /\ Len(archive) = nimg
         /\ \A i \in Tasks : Cardinality({p \in 1..Len(archive) : archive[p] = i}) = 1
    /\ (hpc \notin {"idle", "map", "awaitAll"} /\ \A i \in Tasks : tpc[i] = "resolved")
         => finalized

\* a finalized batch of at least 3 entries, appended out of manifest order
C6_Witness == finalized /\ nimg >= 3 /\ archive[1] # 1

\* C7: within one job the current held by the channel never decreases, and
\* the current of the events written to one sink never decreases.
C7_CurrentMonotonic ==
    /\ [](\A s \in Sinks : \A p, q \in 1..Len(log[s]) :
            p <= q => log[s][p].current <= log[s][q].current)
    /\ [][\A r \in 1..Len(heap) : heap[r].current <= heap'[r].current]_vars

\* C8: the status of a job (a JobState object) only moves forward:
\* pending < running < {completed, error}, and a terminal status is final.
C8_StatusForward ==
    [][\A r \in 1..Len(heap) :
         /\ Rank(heap[r].status) <= Rank(heap'[r].status)
         /\ heap[r].status \in Terminal => heap'[r].status = heap[r].status]_vars

\* a job has completed and a later job under the same id is running
C8_Witness ==
    \E r \in 1..Len(heap) :
        /\ heap[r].status \in Terminal
        /\ jobs[heap[r].jobId] \notin {0, r}
        /\ heap[jobs[heap[r].jobId]].status = "running"

\* C9: subscribe registers the sink and writes it an init event with the
\* job's current and total at that moment; that init is the first event of
\* every sink.
C9_InitFirst ==
    /\ [](\A s \in Sinks :
            /\ handle[s] = NoId => log[s] = <<>>
            /\ log[s] # <<>> => log[s][1].type = "init")
    /\ [][\A s \in Sinks : (handle[s] = NoId /\ handle'[s] # NoId) =>
            LET r == jobs'[handle'[s]]
            IN /\ r # 0
               /\ s \in heap'[r].listeners
               /\ log'[s] = <<Event("init", heap'[r].current, heap'[r].total)>>]_vars

\* a sink that subscribed after start (its init carries the started total)
\* and then received a later event
C9_Witness ==
    \E s \in Sinks : Len(log[s]) >= 2 /\ log[s][1].total >= 1 /\ log[s][2].type = "progress"

\* C10: completeJob / errorJob write one terminal event to every sink
\* subscribed at that moment, end those sinks and delete the registry entry;
\* a terminal event is the last event of its sink.
C10_TerminalOnce ==
    /\ [](\A s \in Sinks : \A p \in 1..Len(log[s]) :
            log[s][p].type \in {"complete", "error"} =>
                p = Len(log[s]) /\ ended[s] /\ ~Registered(s))
    /\ [][\A r \in 1..Len(heap) :
            (heap[r].status \notin Terminal /\ heap'[r].status \in Terminal) =>
                /\ jobs'[heap[r].jobId] = 0
                /\ \A s \in Sinks :
                     IF s \in heap[r].listeners
                     THEN /\ ended'[s]
                          /\ Len(log'[s]) = Len(log[s]) + 1
                          /\ Last(log'[s]).type =
                               (IF heap'[r].status = "completed" THEN "complete" ELSE "error")
                     ELSE log'[s] = log[s]]_vars

\* one sink got its error event, and a later job under the same id has
\* published to another sink since
C10_Witness ==
    \E s, u \in Sinks :
        /\ log[s] # <<>> /\ Last(log[s]).type = "error"
        /\ Registered(u)
        /\ log[u] # <<>> /\ Last(log[u]).type = "progress"

\* C11: a stream opened for a job id whose conversion has terminated (a job of
\* that id reached a terminal status and no other job of that id was started)
\* is closed: no sink subscribed to that id is left open.
ConversionOver(j) ==
    /\ \E r \in 1..Len(heap) : heap[r].jobId = j /\ heap[r].status \in Terminal
    /\ \A r \in 1..Len(heap) : heap[r].jobId = j => heap[r].status # "running"

C11_StreamClosed ==
    \A s \in Sinks : (handle[s] # NoId /\ ConversionOver(handle[s])) => ended[s]

\* C12: while a batch with a job id runs, the job's total is the number of
\* manifest images and its current is the number of appended outputs (one
\* progress event per successful task).
C12_ProgressPerSuccess ==
    (hpc = "awaitAll" /\ reqJobId # NoId) =>
        /\ jobs[reqJobId] # 0
        /\ heap[jobs[reqJobId]].total = nimg
        /\ heap[jobs[reqJobId]].current = Len(archive)

\* ---- request validation
ArchiveCreated == hpc \in {"map", "awaitAll", "done", "failed"}
Dispatched == \E i \in Slots : tpc[i] # "none" /\ tpc[i] # "new"
OwnUploads(req) == \A i \in 1..Len(req.items) : req.items[i].fileName \in req.files
WellFormed(req) ==
    /\ req.manifest = "parsed"
    /\ req.images = "array"
    /\ Len(req.items) > 0
    /\ \A i \in 1..Len(req.items) : req.items[i].nameIsString /\ req.items[i].yIsNumber
    /\ OwnUploads(req)
Received == request # NoRequest

\* C13: a request whose manifest is missing, is not valid JSON, has an empty
\* or non-array images list, has a badly typed entry or names a file that was
\* not uploaded is answered 400 and nothing is created or dispatched.
C13_InvalidRejected ==
    (Received /\ ~WellFormed(request)) =>
        /\ hpc = "rejected"
        /\ reply.code = 400
        /\ ~ArchiveCreated
        /\ ~Dispatched
        /\ \A s \in Sinks : log[s] = <<>>

\* C14: a manifest in which one fileName appears in two entries is rejected
\* before any task is dispatched.
HasDuplicate(req) ==
    \E i, j \in 1..Len(req.items) : i < j /\ req.items[i].fileName = req.items[j].fileName

C14_DuplicateRejected ==
    (Received /\ HasDuplicate(request)) => (hpc = "rejected" /\ ~Dispatched)


\* ---- crop window
Cropped == calc.op \in {"extract", "safeExtract"}

C16_RectInsideSource ==
    Cropped =>
        /\ calc.rect.left >= 0
        /\ calc.rect.top2 >= 0
        /\ calc.rect.left + calc.rect.width <= calc.nw
        /\ calc.rect.top2 + 2 * calc.rect.height <= 2 * calc.nh


\* ---- crop suggestion
Suggested == calc.op \in {"suggestY", "suggestRoute"}
Remaining == SelectSeq(calc.faces, LAMBDA f : Confident(f, calc.minConfidence10))
SuggestCropHeight == RoundOverAspect(calc.nw)
SuggestMaxY == Max(0, calc.nh - SuggestCropHeight)
\* the faces whose vertical centre lies in [Y, Y + cropHeight]
IncludedAt(Y) ==
    {i \in 1..Len(Remaining) :
        LET cy2 == 2 * Remaining[i].y + Remaining[i].height
        IN  2 * Y <= cy2 /\ cy2 <= 2 * (Y + SuggestCropHeight)}

\* C17: the suggested y includes as many faces (vertical centre within
\* [y, y + cropHeight]) as any integer offset in [0, maxY] can include, also
\* when that maximum is reached only at a point where one face's interval
\* ends and another's begins.
C17_MaximalCount ==
    Suggested =>
        \A Y \in 0..SuggestMaxY :
            Cardinality(IncludedAt(Y)) <= Cardinality(IncludedAt(calc.y))

\* C18: when no face remains after the confidence filter the suggested y is
\* round((naturalHeight - cropHeight) / 2) clamped to [0, maxY]; 260 for an
\* 800 x 1000 image.
C18_CenteredFallback ==
    (Suggested /\ Remaining = <<>>) =>
        /\ calc.y = Max(0, Min(SuggestMaxY, (calc.nh - SuggestCropHeight + 1) \div 2))
        /\ (calc.nw = 800 /\ calc.nh = 1000) => calc.y = 260


\* ---- archive entry name
\* the last extension of a name: its last "." together with what follows,
\* when something follows and no "/" does
LastDot(name) ==
    LET dots == {i \in 1..Len(name) : name[i] = "."}
    IN  IF dots = {} THEN 0 ELSE CHOOSE i \in dots : \A j \in dots : j <= i
HasExtension(name) ==
    /\ LastDot(name) > 0
    /\ LastDot(name) < Len(name)
    /\ \A j \in LastDot(name)..Len(name) : name[j] # "/"
WithoutLastExtension(name) ==
    IF HasExtension(name) THEN SubSeq(name, 1, LastDot(name) - 1) ELSE name

\* C19: the archive entry of a manifest entry is named by removing the last
\* extension from fileName and appending "_800x480.bmp", for every fileName,
\* with several dots or with no extension too (a.jpg gives a_800x480.bmp).
C19_EntryName ==
    calc.op = "outName" =>
        /\ calc.outName = WithoutLastExtension(calc.fileName) \o <<"_800x480", ".", "bmp">>
        /\ calc.fileName = <<"a", ".", "jpg">>
               => calc.outName = <<"a", "_800x480", ".", "bmp">>
        /\ ~HasExtension(calc.fileName)
               => calc.outName = calc.fileName \o <<"_800x480", ".", "bmp">>

\* a name with two extensions has lost only the last one
C19_Witness ==
    /\ calc.op = "outName"
    /\ calc.fileName = <<"a", ".", "jpg", ".", "jpg">>
    /\ calc.outName = <<"a", ".", "jpg", "_800x480", ".", "bmp">>


\* ---- error kinds
\* C20: a batch that failed because the quantization tool could not be
\* spawned is answered with an error that differs from every answer given
\* when a source image could not be decoded.
C20_ToolUnavailableDistinct ==
    (hpc = "failed" /\ allErr = "toolUnavailable") =>
        \A sent \in BOOLEAN : reply # CatchReply("unreadable", sent)


\* ---- backpressure
\* C21: the number of outputs accepted by the archive and not yet drained to
\* the sink stays bounded independently of the batch size (at most one per
\* concurrency slot), because a producer appending faster than the sink
\* drains is suspended.
C21_PendingBounded == Len(archive) - drained <= MaxConcurrent


\* ---- wake-up order
Started(i) == tpc[i] \in {"running", "bodyOk", "bodyErr", "resolved", "rejected"}

\* C22: waiters are woken first in, first out: the queue holds the waiters
\* in the order they began to wait, a task that began waiting earlier has
\* started whenever a later one has, and so tasks start in manifest order.
C22_FifoStart ==
    /\ \A a, b \in 1..Len(queue) : a < b => queue[a] < queue[b]
    /\ \A i, j \in Tasks : (i < j /\ Started(j)) => Started(i)

\* two waiters have been woken and neither has resumed yet
C22_Witness ==
    \E i, j \in Tasks : i < j /\ tpc[i] = "woken" /\ tpc[j] = "woken"


\* ---- determinism of the suggestion
\* C23: two evaluations of the suggestion on the same face list, dimensions
\* and minConfidence return the same y, also when faces have equal areas or
\* candidates tie on every criterion; the result is the one of the sweep
\* taken position by position.
C23_Deterministic ==
    calc.op = "suggestTwice" =>
        /\ calc.y = calc.again
        /\ calc.y = SuggestYForFaces(calc.nw, calc.nh, calc.faces, calc.minConfidence10)

\* two faces of equal area remain, with disjoint inclusion intervals: their
\* candidates tie on the count and on the summed area
C23_Witness ==
    /\ calc.op = "suggestTwice"
    /\ calc.nw = 5 /\ calc.nh = 7
    /\ calc.faces = <<Box(4, 2, 2, TRUE, 9), Box(0, 2, 2, FALSE, 0)>>
    /\ calc.minConfidence10 = 6
    /\ calc.y = calc.again


\* ---- finalize
Unfinished(i) == tpc[i] \in {"new", "waiting", "woken", "running"}

\* C24: the archive is finalized only after every task of the batch has made
\* its append: once finalize was called no task waits for a slot, is about to
\* resume or runs, and every task's entry is in the archive.
C24_FinalizeAfterAll ==
    finalized =>
        /\ \A i \in Tasks : ~Unfinished(i)
        /\ \A i \in Tasks : \E n \in 1..Len(archive) : archive[n] = i

\* a batch larger than the limiter was finalized, the last entry appended
\* not being the last of the manifest
C24_Witness ==
    /\ finalized
    /\ nimg > MaxConcurrent
    /\ archive[Len(archive)] # nimg


\* ---- entry names within one archive
\* the name given to archive.append for the entry of task i
EntryName(i) == StripExtension(request.items[i].fileName) \o <<"_800x480", ".", "bmp">>

\* C25: no archive holds two entries of the same name: a second append
\* under a name already used is rejected, also when two manifest entries
\* differ only in their extension (a.jpg and a.png). Stated for manifests
\* whose fileNames are all different, where only the names derived from
\* them can collide.
C25_UniqueEntryNames ==
    ~HasDuplicate(request) =>
        \A p, q \in 1..Len(archive) :
            p # q => EntryName(archive[p]) # EntryName(archive[q])


\* ---- crop window against the reference geometry
\* round(n * (800/480))
RoundTimesAspect(n) == (2 * n * TARGET_WIDTH + TARGET_HEIGHT) \div (2 * TARGET_HEIGHT)
Clamp(v, lo, hi) == Max(lo, Min(v, hi))
FullWidthFits == RoundOverAspect(calc.nw) <= calc.nh
IntegerY == calc.y2 % 2 = 0

\* C26: when the full-width crop fits (cropHeight <= naturalHeight) the
\* window is the reference one: cropHeight = round(naturalWidth / (800/480)),
\* left 0, full width, height cropHeight and top = clamp(requestedY, 0,
\* naturalHeight - cropHeight), for every integer requestedY.
C26_FullWidthReference ==
    (Cropped /\ FullWidthFits /\ IntegerY) =>
        LET cropHeight == RoundOverAspect(calc.nw)
        IN  calc.rect = Rect(0, 2 * Clamp(calc.y2 \div 2, 0, calc.nh - cropHeight),
                             calc.nw, cropHeight)

\* C27: when the full-width crop does not fit (cropHeight > naturalHeight)
\* the window takes the full height, width = round(naturalHeight * (800/480)),
\* left = floor((naturalWidth - width) / 2) and top 0, whatever y was asked.
C27_FallbackReference ==
    (Cropped /\ ~FullWidthFits) =>
        LET width == RoundTimesAspect(calc.nh)
        IN  calc.rect = Rect((calc.nw - width) \div 2, 0, width, calc.nh)


\* ---- startJob
ListenersOf(j) == IF jobs[j] = 0 THEN {} ELSE heap[jobs[j]].listeners

\* C28: startJob(jobId, total) leaves the job with current 0, the given
\* total and status running, creates it when the id has no job, keeps the
\* record and the subscribers of an existing one, and writes exactly one init
\* event (0, total) to each of those subscribers and to no other sink.
C28_StartResets ==
    [][\A j \in JobIds, t \in Totals :
         StartJob(j, t) =>
             /\ jobs'[j] # 0
             /\ jobs[j] # 0 => jobs'[j] = jobs[j]
             /\ heap'[jobs'[j]].current = 0
             /\ heap'[jobs'[j]].total = t
             /\ heap'[jobs'[j]].status = "running"
             /\ heap'[jobs'[j]].listeners = ListenersOf(j)
             /\ \A s \in Sinks :
                  log'[s] = IF s \in ListenersOf(j)
                            THEN Append(log[s], Event("init", 0, t))
                            ELSE log[s]]_vars

\* a subscriber saw progress and then the init of a restart of its job
C28_Witness ==
    \E s \in Sinks :
        /\ Len(log[s]) >= 3
        /\ log[s][2].type = "progress" /\ log[s][2].current > 0
        /\ log[s][3] = Event("init", 0, 2)
        /\ Registered(s)


\* ---- referencing an existing job
\* C29: a subscribe on a job id that already has a job uses that job state:
\* no record is created, the id keeps its record, whose current, total and
\* status are unchanged and whose earlier sinks stay registered.
C29_OpenIdempotent ==
    [][\A j \in JobIds, s \in Sinks :
         (Subscribe(j, s) /\ jobs[j] # 0) =>
             /\ Len(heap') = Len(heap)
             /\ jobs'[j] = jobs[j]
             /\ heap'[jobs[j]].current = heap[jobs[j]].current
             /\ heap'[jobs[j]].total = heap[jobs[j]].total
             /\ heap'[jobs[j]].status = heap[jobs[j]].status
             /\ heap'[jobs[j]].listeners = heap[jobs[j]].listeners \cup {s}]_vars

\* a second sink joined a running job that had already reported progress
C29_Witness ==
    \E r \in 1..Len(heap) : \E s, u \in heap[r].listeners :
        /\ s # u
        /\ heap[r].status = "running"
        /\ Len(log[u]) >= 2
        /\ log[s] = <<Event("init", heap[r].current, heap[r].total)>>
        /\ heap[r].current > 0


\* ---- registry clean-up
\* C30: after every operation of the channel the registry holds no job that
\* is terminal (completed or error) and has no subscriber.
C30_NoTerminalOrphan ==
    \A j \in JobIds :
        jobs[j] # 0 =>
            ~(heap[jobs[j]].status \in Terminal /\ heap[jobs[j]].listeners = {})

\* a job without any subscriber failed and its id has no entry any more
C30_Witness ==
    \E r \in 1..Len(heap) :
        /\ heap[r].status = "error"
        /\ heap[r].listeners = {}
        /\ jobs[heap[r].jobId] = 0


\* ---- preference between face sets
FaceArea(i) == Remaining[i].width * Remaining[i].height
\* rank by descending area, earlier face first among equal areas (1 = largest)
RankOf(i) ==
    1 + Cardinality({j \in 1..Len(Remaining) :
                        \/ FaceArea(j) > FaceArea(i)
                        \/ FaceArea(j) = FaceArea(i) /\ j < i})
RanksAt(Y) == {RankOf(i) : i \in IncludedAt(Y)}
MaxCount ==
    LET counts == {Cardinality(IncludedAt(Y)) : Y \in 0..SuggestMaxY}
    IN  CHOOSE c \in counts : \A d \in counts : d <= c
\* at the first rank where the two sets differ, a holds the face
Preferred(a, b) ==
    LET differ == (a \ b) \cup (b \ a)
    IN  differ # {} /\ (CHOOSE r \in differ : \A q \in differ : r <= q) \in a

\* C31: among the offsets of [0, maxY] that include the maximum number of
\* faces, the y of the algorithm includes a set of faces that no other such
\* offset beats by area rank: y reaches the maximum count and no
\* maximum-count offset holds a larger face that y leaves out at the first
\* rank where the two sets differ.
C31_LexPreferred ==
    calc.op = "suggestY" =>
        /\ Cardinality(IncludedAt(calc.y)) = MaxCount
        /\ \A Y \in 0..SuggestMaxY :
             Cardinality(IncludedAt(Y)) = MaxCount
                 => ~Preferred(RanksAt(Y), RanksAt(calc.y))


\* ---- centring
Abs(v) == IF v < 0 THEN 0 - v ELSE v
RECURSIVE SumCentres2(_)
SumCentres2(faceSet) ==
    IF faceSet = {} THEN 0
    ELSE LET i == CHOOSE x \in faceSet : TRUE
         IN  2 * Remaining[i].y + Remaining[i].height + SumCentres2(faceSet \ {i})
\* distance between the band centre Y + cropHeight / 2 and the mean centre of
\* the faces included at Y, times twice their number
OffCentre(Y) ==
    LET inc == IncludedAt(Y)
    IN  Abs(Cardinality(inc) * (2 * Y + SuggestCropHeight) - SumCentres2(inc))

\* C32: between offsets that tie on the face count, the rank set and the
\* summed area (they include the same faces), the algorithm returns the one
\* whose band centre y + cropHeight / 2 is closest to the mean vertical
\* centre of the included faces.
C32_ClosestToMean ==
    (calc.op = "suggestY" /\ IncludedAt(calc.y) # {}) =>
        \A Y \in 0..SuggestMaxY :
            IncludedAt(Y) = IncludedAt(calc.y) => OffCentre(calc.y) <= OffCentre(Y)


\* ---- range of the suggestion
\* C33: for all dimensions, face lists and minConfidence values the
\* suggested y is an integer of [0, maxY], with
\* maxY = max(0, naturalHeight - round(naturalWidth / (800/480))).
C33_SuggestionInRange ==
    Suggested =>
        calc.y \in 0..Max(0, calc.nh - RoundOverAspect(calc.nw))

\* the algorithm fell back to the centre on an image two rows shorter than
\* the band, where the unclamped centre is negative
C33_Witness ==
    /\ calc.op = "suggestY"
    /\ Remaining = <<>>
    /\ calc.nh + 2 <= SuggestCropHeight
    /\ calc.y = 0


\* ---- the limiter under any caller
\* C34: createLimiter(n) keeps at most n functions mid-execution for every
\* interleaving of limit() calls, also when a limit() call arrives after a
\* finishing task released its slot and woke a waiter, before the waiter
\* resumed.
C34_LimiterBound ==
    /\ active <= MaxConcurrent
    /\ Cardinality({i \in Slots : tpc[i] = "running"}) <= MaxConcurrent


\* ---- progress of the batch
\* C35: when every conversion settles, every task handed to the limiter
\* eventually gets a slot and starts, and the batch eventually ends
\* (archive finalized or failure answered): a failed task releases its slot
\* like a successful one, so no waiter stays blocked.
C35_EveryTaskStarts ==
    /\ \A i \in Slots : (tpc[i] \in {"waiting", "woken"}) ~> Started(i)
    /\ (hpc \in {"map", "awaitAll"}) ~> (hpc \in {"done", "failed"})

\* the batch failed on its first task and every later task, the waiters
\* included, has run to its end since
C35_Witness ==
    /\ hpc = "failed"
    /\ nimg > MaxConcurrent
    /\ tpc[1] = "rejected"
    /\ \A i \in Tasks : tpc[i] \in {"resolved", "rejected"}


\* ---- non-empty crop
\* C36: for every source of at least 1 x 1 pixels the rectangle handed to
\* extract is not empty: its width and its height are at least 1, also for
\* a source one pixel wide.
C36_NonEmptyRect ==
    Cropped => (calc.rect.width >= 1 /\ calc.rect.height >= 1)


\* ---- jobs that are never started
\* C37: a job made by subscribe for an id that is never started leaves the
\* registry with its last subscriber: the registry holds no pending job
\* without a subscriber.
C37_NoPendingOrphan ==
    \A j \in JobIds :
        jobs[j] # 0 =>
            ~(heap[jobs[j]].status = "pending" /\ heap[jobs[j]].listeners = {})


\* ---- the unsubscribe handle
\* C38: once a sink's unsubscribe handle has run, the sink is registered
\* nowhere and gets no further event; and every run of a handle (the first,
\* a repeated one, or one after the job completed and a new job took the
\* id) removes no other sink from any job and deletes no job that is not
\* terminal.
C38_UnsubscribeFrame ==
    /\ [][\A s \in Sinks :
            Unsubscribe(s) =>
                /\ ~(\E j \in JobIds : jobs'[j] # 0 /\ s \in heap'[jobs'[j]].listeners)
                /\ \A r \in 1..Len(heap) : heap[r].listeners \ {s} \subseteq heap'[r].listeners
                /\ \A j \in JobIds :
                     (jobs[j] # 0 /\ jobs'[j] = 0) => heap[jobs[j]].status \in Terminal]_vars
    /\ [][\A s \in Sinks :
            (handle[s] # NoId /\ ~Registered(s)) => log'[s] = log[s]]_vars

\* a sink was closed by its handle (no terminal event reached it) while
\* another sink of the same job stayed registered and got a later event
C38_Witness ==
    \E s, u \in Sinks :
        /\ s # u
        /\ ended[s] /\ ~Registered(s)
        /\ log[s] # <<>> /\ Last(log[s]).type \notin {"complete", "error"}
        /\ Registered(u) /\ handle[u] = handle[s]
        /\ Len(log[u]) > Len(log[s])
        /\ Last(log[u]).type = "progress"


\* ---- suggestions against the user's crop position
\* C39: once the user has set an image's crop position, the suggestion for
\* it has been answered and every write for it has committed, the card and
\* the stored record both carry the user's value.
C39_UserValueKept ==
    \A id \in GalleryIds :
        ( /\ userY[id] # NoY
          /\ suggest[id] = "settled"
          /\ \A t \in 1..Len(txs) : txs[t][1] # id )
        => (CropYOf(id) = userY[id] /\ store[id] = userY[id])

====
